---- MODULE Spec2Model ----
(***************************************************************************)
(* A model of the two front-end components of the repository:              *)
(*                                                                         *)
(*   ActionToolbar  (src/frontend/components/action-toolbar.tsx)           *)
(*   ChatInterface  (src/unnamed/part_000)                                 *)
(*                                                                         *)
(* ActionToolbar is a state machine: its React state (isLoading), its      *)
(* props (metadata), the asynchronous handleCallClient invocations that    *)
(* are suspended at an await, and the effects it has on the outside (HTTP  *)
(* requests issued, toasts shown).  ChatInterface is a pure render of its  *)
(* props plus one callback; the model keeps the props, the rendered view   *)
(* and the callback invocations.                                           *)
(*                                                                         *)
(* JavaScript values are encoded as strings and records so that TLC can    *)
(* compare them: Undefined stands for undefined / an absent optional       *)
(* property, an object that may be null carries an isNull field, and an    *)
(* optional boolean is one of "true", "false", Undefined.                  *)
(***************************************************************************)
EXTENDS Integers, Sequences, FiniteSets, TLC

VARIABLES
    \* ---- ActionToolbar ----
    env,            \* process.env.NEXT_PUBLIC_API_URL (fixed at build time)
    metadata,       \* the metadata prop
    isLoading,      \* useState(false)
    calls,          \* one record per handleCallClient invocation
    requests,       \* the HTTP requests issued with fetch, in order
    toasts,         \* the toast(...) calls, in order
    emailClicks,    \* number of clicks of Send Email
    meetingClicks,  \* number of clicks of Schedule Meeting
    \* ---- ChatInterface ----
    messages,       \* the messages prop
    hasHandler,     \* whether the onMessageAction prop is supplied
    view,           \* what the last render returned
    chatClicks,     \* number of clicks of an Approve/Modify/Reject button
    lastClick,      \* the last click: which entry, which button
    actionCount,    \* number of onMessageAction invocations
    lastAction      \* the arguments of the last onMessageAction invocation

toolbarVars == <<env, metadata, isLoading, calls, requests, toasts,
                 emailClicks, meetingClicks>>
chatVars == <<messages, hasHandler, view, chatClicks, lastClick, actionCount,
              lastAction>>
vars == <<env, metadata, isLoading, calls, requests, toasts, emailClicks,
          meetingClicks, messages, hasHandler, view, chatClicks, lastClick,
          actionCount, lastAction>>

(***************************************************************************)
(* Bounds of the model.                                                    *)
(***************************************************************************)
MaxClicks == 3
MaxMessages == 2
MaxChatClicks == 2

(***************************************************************************)
(* JavaScript values.                                                      *)
(***************************************************************************)
Undefined == "<undefined>"

\* v is truthy: a string or an optional boolean that is neither undefined,
\* nor the empty string, nor false.
Truthy(v) == v \notin {Undefined, "", "false"}

\* a || b
Or(a, b) == IF Truthy(a) THEN a ELSE b

(***************************************************************************)
(* ActionToolbar: values.                                                  *)
(***************************************************************************)
NullMetadata == [isNull |-> TRUE, client_name |-> Undefined, phone |-> Undefined]

MetadataValues ==
    {NullMetadata,
     [isNull |-> FALSE, client_name |-> Undefined, phone |-> "555-0142"],
     [isNull |-> FALSE, client_name |-> "", phone |-> Undefined],
     [isNull |-> FALSE, client_name |-> "Ann", phone |-> Undefined],
     [isNull |-> FALSE, client_name |-> "Ann", phone |-> "555-0142"]}

EnvValues == {Undefined, "https://api.test"}

\* The settled value of fetch(...): a Response (ok or not), or a rejection.
Responses == {[ok |-> TRUE, status |-> "200"], [ok |-> FALSE, status |-> "500"]}

\* What a rejected promise carries: an Error with a message, or something
\* that is not an Error.
Errors == {[isError |-> TRUE, message |-> <<"Failed to fetch">>],
           [isError |-> FALSE, message |-> <<Undefined>>]}

SyntaxError == [isError |-> TRUE, message |-> <<"Unexpected token < in JSON">>]

\* What response.json() resolves to: null, an object with a message, an
\* object without one.
NullData == [isNull |-> TRUE, message |-> Undefined]
JsonValues == {NullData} \cup [isNull : {FALSE}, message : {Undefined, "Call queued"}]

\* metadata?.client_name
ClientNameOf(m) == IF m.isNull THEN Undefined ELSE m.client_name

\* A guard that tests only metadata for null (C1 must tell it apart).
MissingClientName_NullOnly(m) == m.isNull

\* !metadata?.client_name
MissingClientName(m) == ~Truthy(ClientNameOf(m))

\* process.env.NEXT_PUBLIC_API_URL || "http://localhost:8000"
ApiUrl == Or(env, "http://localhost:8000")

\* The arguments of the fetch call of an invocation whose closure holds m.
FetchRequest(m, i) ==
    [url |-> <<ApiUrl, "/call_client">>,
     method |-> "POST",
     contentType |-> "application/json",
     body |-> [client_name |-> m.client_name,
               phone |-> Or(m.phone, "555-0100"),
               reason |-> "Case review follow-up"],
     inv |-> i]

Toast(title, description, variant, i) ==
    [title |-> title, description |-> description, variant |-> variant, inv |-> i]

MissingInformationToast(i) ==
    Toast("Missing Information", <<"Client information not available">>,
          "destructive", i)

\* error instanceof Error ? error.message : "Unknown error"
ErrorDescription(error) ==
    IF error.isError THEN error.message ELSE <<"Unknown error">>

CallFailedToast(error, i) ==
    Toast("Call Failed", ErrorDescription(error), "destructive", i)

\* data.message || `Calling ${metadata.client_name}...`
CallInitiatedToast(data, m, i) ==
    Toast("Call Initiated",
          IF Truthy(data.message) THEN <<data.message>>
          ELSE <<"Calling ", m.client_name, "...">>,
          Undefined, i)

EmailToast == Toast("Email Draft Created", <<"Opening email client...">>, Undefined, 0)

CalendarToast == Toast("Calendar Opened", <<"Select a meeting time...">>, Undefined, 0)

\* new Error(`API error: ${response.status}`)
ApiError(response) == [isError |-> TRUE, message |-> <<"API error: ", response.status>>]

\* The TypeError of reading .message of null.
NullReadError ==
    [isError |-> TRUE, message |-> <<"Cannot read properties of null (reading 'message')">>]

\* Number of button clicks so far (the model bounds it).
Clicks == Len(calls) + emailClicks + meetingClicks

\* Invocations suspended at an await.
Pending == {i \in 1..Len(calls) : calls[i].pc \in {"awaitFetch", "awaitJson"}}

(***************************************************************************)
(* ChatInterface: values.  A message is modelled by the fields the render  *)
(* branches on: id, requiresApproval and status.  role, content,           *)
(* timestamp, agentName and confidence only select text and styling.       *)
(***************************************************************************)
MessageId(n) == <<"msg-", n>>

ApprovalValues == {"true", "false", Undefined}

StatusValues == {Undefined, "pending", "approved", "rejected", "modified"}

NoBadge == "<none>"

NoClick == [entry |-> 0, label |-> "<none>"]

NoAction == [messageId |-> <<"<none>", 0>>, action |-> "<none>"]

\* String.prototype.toUpperCase on the values of status.
ToUpperCase(s) ==
    CASE s = "pending" -> "PENDING"
      [] s = "approved" -> "APPROVED"
      [] s = "rejected" -> "REJECTED"
      [] s = "modified" -> "MODIFIED"
      [] OTHER -> s

(***************************************************************************)
(* ChatInterface: the render.                                              *)
(***************************************************************************)
\* A condition without the status test (C6 must tell it apart).
ShowButtons_IgnoresStatus(m) == Truthy(m.requiresApproval)

\* message.requiresApproval && message.status === "pending"
ShowButtons(m) == Truthy(m.requiresApproval) /\ m.status = "pending"

\* A condition without the "pending" test (C9 must tell it apart).
ShowBadge_AnyStatus(m) == Truthy(m.status)

\* message.status && message.status !== "pending"
ShowBadge(m) == Truthy(m.status) /\ m.status # "pending"

\* Buttons whose Modify passes "approve" (C7 must tell them apart).
ApprovalButtons_ModifyApproves(m) ==
    <<[label |-> "Approve", messageId |-> m.id, action |-> "approve"],
      [label |-> "Modify", messageId |-> m.id, action |-> "approve"],
      [label |-> "Reject", messageId |-> m.id, action |-> "reject"]>>

\* The three buttons of a message, each with the arguments its onClick
\* passes to handleAction.
ApprovalButtons(m) ==
    <<[label |-> "Approve", messageId |-> m.id, action |-> "approve"],
      [label |-> "Modify", messageId |-> m.id, action |-> "modify"],
      [label |-> "Reject", messageId |-> m.id, action |-> "reject"]>>

\* One entry of messages.map(...).
RenderMessage(m) ==
    [key |-> m.id,
     buttons |-> IF ShowButtons(m) THEN ApprovalButtons(m) ELSE <<>>,
     badge |-> IF ShowBadge(m) THEN ToUpperCase(m.status) ELSE NoBadge]

\* A placeholder also shown beside a single message (C10 must tell it apart).
ShowPlaceholder_UpToOne(msgs) == Len(msgs) <= 1

\* messages.length === 0 && (placeholder)
ShowPlaceholder(msgs) == Len(msgs) = 0

\* What ChatInterface returns for the messages prop.
Render(msgs) ==
    [entries |-> [i \in 1..Len(msgs) |-> RenderMessage(msgs[i])],
     placeholder |-> ShowPlaceholder(msgs)]

(***************************************************************************)
(* ChatInterface: the click of a rendered button, and the parent's         *)
(* re-renders with new props.                                              *)
(***************************************************************************)
\* handleAction: onMessageAction?.(messageId, action)
HandleAction(messageId, action) ==
    IF hasHandler
    THEN /\ actionCount' = actionCount + 1
         /\ lastAction' = [messageId |-> messageId, action |-> action]
    ELSE UNCHANGED <<actionCount, lastAction>>

\* A click of button b of entry e of the rendered view.
ClickButton(e, b) ==
    /\ chatClicks < MaxChatClicks
    /\ e \in 1..Len(view.entries)
    /\ b \in 1..Len(view.entries[e].buttons)
    /\ LET button == view.entries[e].buttons[b] IN
       /\ HandleAction(button.messageId, button.action)
       /\ lastClick' = [entry |-> e, label |-> button.label]
    /\ chatClicks' = chatClicks + 1
    /\ UNCHANGED <<messages, hasHandler, view>>
    /\ UNCHANGED toolbarVars

\* The parent renders with one more message.
AppendMessage(ra, st) ==
    /\ Len(messages) < MaxMessages
    /\ messages' = Append(messages,
                          [id |-> MessageId(Len(messages) + 1),
                           requiresApproval |-> ra, status |-> st])
    /\ view' = Render(messages')
    /\ UNCHANGED <<hasHandler, chatClicks, lastClick, actionCount, lastAction>>
    /\ UNCHANGED toolbarVars

\* The parent renders with another status for message e.
SetStatus(e, st) ==
    /\ e \in 1..Len(messages)
    /\ messages[e].status # st
    /\ messages' = [messages EXCEPT ![e].status = st]
    /\ view' = Render(messages')
    /\ UNCHANGED <<hasHandler, chatClicks, lastClick, actionCount, lastAction>>
    /\ UNCHANGED toolbarVars

\* The parent supplies or withdraws onMessageAction.
SetHandler(h) ==
    /\ h # hasHandler
    /\ hasHandler' = h
    /\ UNCHANGED <<messages, view, chatClicks, lastClick, actionCount, lastAction>>
    /\ UNCHANGED toolbarVars

ChatInit ==
    /\ messages = <<>>
    /\ hasHandler \in BOOLEAN
    /\ view = Render(messages)
    /\ chatClicks = 0
    /\ lastClick = NoClick
    /\ actionCount = 0
    /\ lastAction = NoAction
    /\ env = Undefined
    /\ metadata = NullMetadata
    /\ isLoading = FALSE
    /\ calls = <<>>
    /\ requests = <<>>
    /\ toasts = <<>>
    /\ emailClicks = 0
    /\ meetingClicks = 0

ChatNext ==
    \/ \E e \in 1..MaxMessages : \E b \in 1..3 : ClickButton(e, b)
    \/ \E ra \in ApprovalValues : \E st \in StatusValues : AppendMessage(ra, st)
    \/ \E e \in 1..MaxMessages : \E st \in StatusValues : SetStatus(e, st)
    \/ \E h \in BOOLEAN : SetHandler(h)

\* The chat component alone (the toolbar is not mounted).
ChatSpec == ChatInit /\ [][ChatNext]_vars

(***************************************************************************)
(* ActionToolbar: the rendered buttons.                                    *)
(***************************************************************************)
\* A Call Client button without the disabled prop (C8 must tell it apart).
CallClientAlwaysEnabled == FALSE

\* <Button onClick={handleCallClient} disabled={isLoading}>
CallClientDisabled == isLoading

\* A Send Email button disabled while loading (C5 must tell it apart).
SendEmailDisabledWhileLoading == isLoading

\* <Button onClick={handleSendEmail}>: no disabled prop
SendEmailDisabled == FALSE

\* <Button onClick={handleScheduleMeeting}>: no disabled prop
ScheduleMeetingDisabled == FALSE

(***************************************************************************)
(* ActionToolbar: handleCallClient.  The handler is an async function: it  *)
(* runs from the click to the first await, and resumes when the awaited    *)
(* promise settles.                                                        *)
(***************************************************************************)
NewCall(m, pc) ==
    [pc |-> pc, metadata |-> m, fetch |-> "none", json |-> "none",
     promise |-> IF pc = "returned" THEN "fulfilled" ELSE "pending"]

\* The click: lines 19-43, up to "await fetch(...)".  A disabled button
\* delivers no click.  React commits the state update of a click handler
\* before the browser dispatches the next event, so what the button shows is
\* the current isLoading.
HandleCallClient ==
    /\ ~CallClientDisabled
    /\ Clicks < MaxClicks
    /\ LET i == Len(calls) + 1 IN
       IF MissingClientName(metadata)
       THEN /\ toasts' = Append(toasts, MissingInformationToast(i))
            /\ calls' = Append(calls, NewCall(metadata, "returned"))
            /\ UNCHANGED <<isLoading, requests>>
       ELSE /\ isLoading' = TRUE
            /\ requests' = Append(requests, FetchRequest(metadata, i))
            /\ calls' = Append(calls, NewCall(metadata, "awaitFetch"))
            /\ UNCHANGED toasts
    /\ UNCHANGED <<env, metadata, emailClicks, meetingClicks>>
    /\ UNCHANGED chatVars

\* A catch block without the finally (C2 must tell it apart).
CatchWithoutFinally(i, error, how) ==
    /\ toasts' = Append(toasts, CallFailedToast(error, i))
    /\ calls' = [calls EXCEPT ![i] = [how EXCEPT !.pc = "done", !.promise = "fulfilled"]]
    /\ UNCHANGED <<isLoading, requests>>

\* A catch block that issues the request again (C4 must tell it apart).
CatchWithRetry(i, error, how) ==
    /\ toasts' = Append(toasts, CallFailedToast(error, i))
    /\ isLoading' = FALSE
    /\ calls' = [calls EXCEPT ![i] = [how EXCEPT !.pc = "done", !.promise = "fulfilled"]]
    /\ requests' = Append(requests, FetchRequest(calls[i].metadata, i))

\* catch (error) { toast Call Failed } finally { setIsLoading(false) }: the
\* invocation ends; how is its record with what was awaited filled in.
Catch(i, error, how) ==
    /\ toasts' = Append(toasts, CallFailedToast(error, i))
    /\ isLoading' = FALSE
    /\ calls' = [calls EXCEPT ![i] = [how EXCEPT !.pc = "done", !.promise = "fulfilled"]]
    /\ UNCHANGED requests

\* fetch resolves with a Response: lines 45-49.
FetchResolves(i, response) ==
    /\ i \in 1..Len(calls)
    /\ calls[i].pc = "awaitFetch"
    /\ IF ~response.ok
       THEN Catch(i, ApiError(response), [calls[i] EXCEPT !.fetch = "notOk"])
       ELSE /\ calls' = [calls EXCEPT ![i] = [@ EXCEPT !.pc = "awaitJson", !.fetch = "ok"]]
            /\ UNCHANGED <<isLoading, requests, toasts>>
    /\ UNCHANGED <<env, metadata, emailClicks, meetingClicks>>
    /\ UNCHANGED chatVars

\* fetch rejects (a network error): lines 55-64.
FetchRejects(i, error) ==
    /\ i \in 1..Len(calls)
    /\ calls[i].pc = "awaitFetch"
    /\ Catch(i, error, [calls[i] EXCEPT !.fetch = "rejected"])
    /\ UNCHANGED <<env, metadata, emailClicks, meetingClicks>>
    /\ UNCHANGED chatVars

\* response.json() resolves with data: lines 49-54, then finally.  Reading
\* data.message of null throws a TypeError inside the try block.
JsonResolves(i, data) ==
    /\ i \in 1..Len(calls)
    /\ calls[i].pc = "awaitJson"
    /\ IF data.isNull
       THEN Catch(i, NullReadError, [calls[i] EXCEPT !.json = "parsed"])
       ELSE /\ toasts' = Append(toasts, CallInitiatedToast(data, calls[i].metadata, i))
            /\ isLoading' = FALSE
            /\ calls' = [calls EXCEPT ![i] =
                           [@ EXCEPT !.pc = "done", !.json = "parsed", !.promise = "fulfilled"]]
            /\ UNCHANGED requests
    /\ UNCHANGED <<env, metadata, emailClicks, meetingClicks>>
    /\ UNCHANGED chatVars

\* response.json() rejects (the body is not JSON): lines 55-64.
JsonRejects(i) ==
    /\ i \in 1..Len(calls)
    /\ calls[i].pc = "awaitJson"
    /\ Catch(i, SyntaxError, [calls[i] EXCEPT !.json = "rejected"])
    /\ UNCHANGED <<env, metadata, emailClicks, meetingClicks>>
    /\ UNCHANGED chatVars

(***************************************************************************)
(* ActionToolbar: the stubs, and the parent's re-render with new props.    *)
(***************************************************************************)
HandleSendEmail ==
    /\ ~SendEmailDisabled
    /\ Clicks < MaxClicks
    /\ toasts' = Append(toasts, EmailToast)
    /\ emailClicks' = emailClicks + 1
    /\ UNCHANGED <<env, metadata, isLoading, calls, requests, meetingClicks>>
    /\ UNCHANGED chatVars

HandleScheduleMeeting ==
    /\ ~ScheduleMeetingDisabled
    /\ Clicks < MaxClicks
    /\ toasts' = Append(toasts, CalendarToast)
    /\ meetingClicks' = meetingClicks + 1
    /\ UNCHANGED <<env, metadata, isLoading, calls, requests, emailClicks>>
    /\ UNCHANGED chatVars

SetMetadata(m) ==
    /\ m # metadata
    /\ metadata' = m
    /\ UNCHANGED <<env, isLoading, calls, requests, toasts, emailClicks, meetingClicks>>
    /\ UNCHANGED chatVars

ToolbarInit ==
    /\ env \in EnvValues
    /\ metadata \in MetadataValues
    /\ isLoading = FALSE
    /\ calls = <<>>
    /\ requests = <<>>
    /\ toasts = <<>>
    /\ emailClicks = 0
    /\ meetingClicks = 0
    /\ messages = <<>>
    /\ hasHandler = FALSE
    /\ view = [entries |-> <<>>, placeholder |-> TRUE]
    /\ chatClicks = 0
    /\ lastClick = NoClick
    /\ actionCount = 0
    /\ lastAction = NoAction

ToolbarNext ==
    \/ HandleCallClient
    \/ \E i \in 1..MaxClicks : \E r \in Responses : FetchResolves(i, r)
    \/ \E i \in 1..MaxClicks : \E e \in Errors : FetchRejects(i, e)
    \/ \E i \in 1..MaxClicks : \E d \in JsonValues : JsonResolves(i, d)
    \/ \E i \in 1..MaxClicks : JsonRejects(i)
    \/ HandleSendEmail
    \/ HandleScheduleMeeting
    \/ \E m \in MetadataValues : SetMetadata(m)

\* The toolbar alone (the chat component is not mounted).
ToolbarSpec == ToolbarInit /\ [][ToolbarNext]_vars

(***************************************************************************)
(* Properties of ActionToolbar, checked under ToolbarSpec.                 *)
(***************************************************************************)
\* The requests issued and the toasts shown by invocation i.
RequestsOf(i) == {k \in 1..Len(requests) : requests[k].inv = i}
ToastsOf(i) == {k \in 1..Len(toasts) : toasts[k].inv = i}

\* m is non-null and its client_name is a non-empty string.
HasClientName(m) == ~m.isNull /\ m.client_name # Undefined /\ m.client_name # ""

Failed(i) == calls[i].pc = "done" /\ calls[i].fetch \in {"notOk", "rejected"}

TitleCount(title) == Cardinality({k \in 1..Len(toasts) : toasts[k].title = title})

C1_State ==
    \A i \in 1..Len(calls) :
       IF HasClientName(calls[i].metadata)
       THEN /\ Cardinality(RequestsOf(i)) = 1
            /\ \A k \in RequestsOf(i) :
                  /\ requests[k].method = "POST"
                  /\ requests[k].url =
                        <<IF env \in {Undefined, ""} THEN "http://localhost:8000" ELSE env,
                          "/call_client">>
            /\ calls[i].pc # "returned"
       ELSE /\ RequestsOf(i) = {}
            /\ calls[i].pc = "returned"
            /\ Cardinality(ToastsOf(i)) = 1
            /\ \A k \in ToastsOf(i) :
                  /\ toasts[k].title = "Missing Information"
                  /\ toasts[k].variant = "destructive"

C1_Step ==
    Len(calls') # Len(calls) =>
       /\ Len(calls') = Len(calls) + 1
       /\ calls'[Len(calls')].metadata = metadata
       /\ ~HasClientName(metadata) =>
             /\ isLoading = FALSE
             /\ isLoading' = FALSE
             /\ requests' = requests
             /\ Len(toasts') = Len(toasts) + 1

\* C1: a click of Call Client issues a POST to <apiUrl>/call_client if and
\* only if metadata is non-null with a non-empty client_name; otherwise the
\* handler shows one destructive "Missing Information" toast, issues no
\* request and leaves isLoading false.
C1_CallOnlyWithClientName == []C1_State /\ [][C1_Step]_vars

C1_Witness ==
    /\ \E i \in 1..Len(calls) : calls[i].metadata.isNull
    /\ \E i \in 1..Len(calls) :
          ~calls[i].metadata.isNull /\ calls[i].metadata.client_name = ""
    /\ \E i \in 1..Len(calls) : RequestsOf(i) # {}

C2_Step ==
    \A i \in 1..Len(calls) :
       (calls[i].pc \in {"awaitFetch", "awaitJson"} /\ calls'[i].pc = "done")
          => isLoading' = FALSE

\* C2: whenever an invocation that set isLoading to true finishes (the fetch
\* resolved ok and the body parsed, the response was not ok, the fetch
\* rejected, or response.json() rejected), isLoading is false again; with no
\* invocation suspended at an await isLoading is never true.
C2_LoadingReset == [](Pending = {} => isLoading = FALSE) /\ [][C2_Step]_vars

C2_Witness ==
    /\ isLoading = FALSE
    /\ \E i \in 1..Len(calls) : calls[i].pc = "done" /\ calls[i].fetch = "rejected"
    /\ \E i \in 1..Len(calls) : calls[i].pc = "done" /\ calls[i].fetch = "notOk"
    /\ \E i \in 1..Len(calls) : calls[i].pc = "done" /\ calls[i].json = "rejected"

\* C3: an invocation that issued a request and has finished has shown
\* exactly one outcome toast: "Call Initiated" (not destructive) if and only
\* if the response was ok and its JSON body parsed, "Call Failed"
\* (destructive) otherwise; and the handler's promise is not rejected.
C3_OneOutcomeToast ==
    \A i \in 1..Len(calls) :
       calls[i].pc = "done" =>
          /\ calls[i].promise = "fulfilled"
          /\ Cardinality(ToastsOf(i)) = 1
          /\ \A k \in ToastsOf(i) :
                IF calls[i].fetch = "ok" /\ calls[i].json = "parsed"
                THEN toasts[k].title = "Call Initiated" /\ toasts[k].variant # "destructive"
                ELSE toasts[k].title = "Call Failed" /\ toasts[k].variant = "destructive"

C4_Step ==
    requests' # requests =>
       /\ Len(calls') = Len(calls) + 1
       /\ Len(requests') = Len(requests) + 1

\* C4: every invocation issues at most one request, and a request is issued
\* only in the step of a new click: a failed request is not retried.
C4_NoRetry ==
    /\ [](\A i \in 1..Len(calls) : Cardinality(RequestsOf(i)) <= 1)
    /\ [](Len(requests) <= Len(calls))
    /\ [][C4_Step]_vars

C4_Witness ==
    \E i, j \in 1..Len(calls) :
       i < j /\ Failed(i) /\ RequestsOf(i) # {} /\ RequestsOf(j) # {}

C5_State ==
    /\ ~SendEmailDisabled
    /\ ~ScheduleMeetingDisabled
    /\ Clicks < MaxClicks => (ENABLED HandleSendEmail) /\ (ENABLED HandleScheduleMeeting)
    /\ TitleCount("Email Draft Created") = emailClicks
    /\ TitleCount("Calendar Opened") = meetingClicks

C5_Step ==
    /\ emailClicks' # emailClicks =>
          /\ emailClicks' = emailClicks + 1
          /\ Len(toasts') = Len(toasts) + 1
          /\ toasts'[Len(toasts')].title = "Email Draft Created"
    /\ meetingClicks' # meetingClicks =>
          /\ meetingClicks' = meetingClicks + 1
          /\ Len(toasts') = Len(toasts) + 1
          /\ toasts'[Len(toasts')].title = "Calendar Opened"
    /\ (emailClicks' # emailClicks \/ meetingClicks' # meetingClicks) =>
          /\ requests' = requests
          /\ isLoading' = isLoading
          /\ calls' = calls

\* C5: a click of Send Email or Schedule Meeting shows exactly one toast
\* ("Email Draft Created" / "Calendar Opened"), issues no request and leaves
\* isLoading alone; both buttons are enabled in every state, also while a
\* call is in flight and when metadata is null.
C5_StubsOnlyToast == []C5_State /\ [][C5_Step]_vars

C5_Witness ==
    /\ Pending # {}
    /\ isLoading
    /\ metadata.isNull
    /\ emailClicks > 0
    /\ meetingClicks > 0

\* C8: at most one invocation is between its fetch and its end at any time,
\* and isLoading is true whenever one is: the disabled Call Client button
\* lets no second invocation start before the first has settled.
C8_OneInFlight ==
    /\ Cardinality(Pending) <= 1
    /\ Pending # {} => isLoading

C8_Witness ==
    /\ Len(requests) >= 2
    /\ Pending # {}
    /\ \E i \in 1..Len(calls) : calls[i].pc = "done"

(***************************************************************************)
(* Properties of ChatInterface, checked under ChatSpec.                    *)
(***************************************************************************)
Shown(e) == view.entries[e].buttons # <<>>

Labels(e) == [b \in 1..Len(view.entries[e].buttons) |-> view.entries[e].buttons[b].label]

\* C6: the Approve/Modify/Reject buttons of a message are shown if and only
\* if its requiresApproval is true and its status is "pending".
C6_ButtonsIffPending ==
    /\ DOMAIN view.entries = 1..Len(messages)
    /\ \A e \in 1..Len(messages) :
          /\ Shown(e) <=> (messages[e].requiresApproval = "true"
                           /\ messages[e].status = "pending")
          /\ Shown(e) => Labels(e) = <<"Approve", "Modify", "Reject">>

C6_Witness ==
    /\ \E e \in 1..Len(messages) : Shown(e)
    /\ \E e \in 1..Len(messages) :
          ~Shown(e) /\ messages[e].status = "pending"
                    /\ messages[e].requiresApproval = Undefined

ActionOfLabel(label) ==
    CASE label = "Approve" -> "approve"
      [] label = "Modify" -> "modify"
      [] label = "Reject" -> "reject"
      [] OTHER -> "<none>"

C7_Click ==
    chatClicks' # chatClicks =>
       /\ chatClicks' = chatClicks + 1
       /\ lastClick'.entry \in 1..Len(messages)
       /\ Shown(lastClick'.entry)
       /\ messages' = messages
       /\ view' = view
       /\ hasHandler' = hasHandler
       /\ IF hasHandler
          THEN /\ actionCount' = actionCount + 1
               /\ lastAction' = [messageId |-> messages[lastClick'.entry].id,
                                 action |-> ActionOfLabel(lastClick'.label)]
          ELSE /\ actionCount' = actionCount
               /\ lastAction' = lastAction

C7_Remain ==
    \A e \in 1..Len(messages) :
       (Shown(e) /\ messages'[e].status = "pending") => view'.entries[e].buttons # <<>>

\* C7: a click of Approve, Modify or Reject invokes onMessageAction exactly
\* once with the message's own id and the matching action, or does nothing
\* when onMessageAction is not supplied; the click changes no message and
\* nothing rendered, and the buttons stay while the status stays "pending".
C7_ClickCallsBack == [][C7_Click]_vars /\ [][C7_Remain]_vars

C7_Witness ==
    /\ chatClicks = 2
    /\ actionCount = 1
    /\ lastClick = [entry |-> 2, label |-> "Modify"]
    /\ lastAction = [messageId |-> MessageId(1), action |-> "reject"]

Badge(e) == view.entries[e].badge

\* C9: the buttons and the status badge of a message exclude each other: the
\* badge, the status in upper case, is shown if and only if the status is
\* defined and not "pending"; a pending message that does not require
\* approval, and a message without status, show neither.
C9_BadgeXorButtons ==
    /\ DOMAIN view.entries = 1..Len(messages)
    /\ \A e \in 1..Len(messages) :
          /\ ~(Shown(e) /\ Badge(e) # NoBadge)
          /\ Badge(e) # NoBadge <=> messages[e].status \in {"approved", "rejected", "modified"}
          /\ messages[e].status = "approved" => Badge(e) = "APPROVED"
          /\ messages[e].status = "rejected" => Badge(e) = "REJECTED"
          /\ messages[e].status = "modified" => Badge(e) = "MODIFIED"
          /\ (messages[e].status = "pending" /\ messages[e].requiresApproval # "true")
                => (~Shown(e) /\ Badge(e) = NoBadge)
          /\ messages[e].status = Undefined => (~Shown(e) /\ Badge(e) = NoBadge)

C9_Witness ==
    /\ \E e \in 1..Len(messages) : Badge(e) = "MODIFIED" /\ messages[e].requiresApproval = "true"
    /\ \E e \in 1..Len(messages) :
          /\ messages[e].status = "pending"
          /\ messages[e].requiresApproval = "false"
          /\ ~Shown(e)
          /\ Badge(e) = NoBadge

\* C10: the "Awaiting case file upload..." placeholder is shown if and only
\* if the messages list is empty; otherwise one entry is rendered per
\* message, in list order.
C10_PlaceholderIffEmpty ==
    /\ view.placeholder <=> messages = <<>>
    /\ DOMAIN view.entries = 1..Len(messages)
    /\ \A e \in 1..Len(messages) : view.entries[e].key = messages[e].id

C10_Witness ==
    /\ Len(messages) = 2
    /\ ~view.placeholder
    /\ view.entries[1].key # view.entries[2].key

====
